---- MODULE Spec2Model ----
(***************************************************************************)
(* Model of the backport orchestration engine of src/src/cli/cliService.ts *)
(* (doBackportVersions, doBackportVersion, cherrypickAndConfirm,           *)
(* confirmResolvedRecursive, sequentially, handleErrors and the naming     *)
(* helpers) together with the error conversion of src/src/lib/github.ts.   *)
(* Strings are TLA+ strings.  A promise is a record of its state           *)
(* ("waiting", "running", "resolved", "rejected"), its value and its       *)
(* rejection reason.  Every collaborator call (git, prompt, hosting API)   *)
(* is a pair of steps: the call is appended to `calls` when it is issued,  *)
(* and its outcome is chosen and appended to `returns` when it returns.    *)
(* withSpinner passes the result or the error of the wrapped call through  *)
(* unchanged, so it does not appear as a step of its own.                  *)
(* Three specifications: Spec is the run with its whole history, with a    *)
(* bounded number of prompts; NamingSpec applies the naming helpers on     *)
(* their own; LiveSpec is the run without history and with fairness, in    *)
(* which the conflict loop is unbounded.                                   *)
(***************************************************************************)
EXTENDS Integers, Sequences, FiniteSets, TLC

(***************************************************************************)
(* Bounds of the model: the number of target branches, the number of       *)
(* commits, and the number of confirmation prompts shown in one run whose  *)
(* history is recorded.                                                    *)
(***************************************************************************)
MaxBranches == 2
MaxCommits == 2
MaxPrompts == 2

(***************************************************************************)
(* String helpers (JavaScript String.prototype semantics).                 *)
(***************************************************************************)
Min(a, b) == IF a < b THEN a ELSE b

\* s.slice(0, n)
slice(s, n) == SubSeq(s, 1, Min(Len(s), n))

\* s.indexOf(pat) + 1, 0 when pat does not occur in s
indexOf(s, pat) ==
  LET hits == { i \in 1..(Len(s) - Len(pat) + 1) : SubSeq(s, i, i + Len(pat) - 1) = pat }
  IN  IF hits = {} THEN 0 ELSE CHOOSE i \in hits : \A j \in hits : i <= j

\* s.includes(pat)
includes(s, pat) == indexOf(s, pat) # 0

\* s.replace(pat, rep) with a string pattern: only the first occurrence
replace(s, pat, rep) ==
  LET i == indexOf(s, pat)
  IN  IF i = 0 THEN s
      ELSE SubSeq(s, 1, i - 1) \o rep \o SubSeq(s, i + Len(pat), Len(s))

RECURSIVE join(_, _)
\* parts.join(sep)
join(parts, sep) ==
  IF Len(parts) = 0 THEN ""
  ELSE IF Len(parts) = 1 THEN parts[1]
  ELSE parts[1] \o sep \o join(Tail(parts), sep)

(***************************************************************************)
(* Commits and the naming helpers.                                         *)
(* A Commit is {sha, message, pullNumber}; pullNumber may be absent, which *)
(* is the field hasPullNumber.                                             *)
(***************************************************************************)
SliceLimit == 200
ShortShaLen == 7

\* JavaScript truthiness of commit.pullNumber (undefined and 0 are falsy)
truthyPullNumber(commit) == commit.hasPullNumber /\ commit.pullNumber # 0

getShortSha(commit) == slice(commit.sha, ShortShaLen)

getReferenceLong(commit) ==
  IF truthyPullNumber(commit)
  THEN "#" \o ToString(commit.pullNumber)
  ELSE getShortSha(commit)

getReferenceShort(commit) ==
  IF truthyPullNumber(commit)
  THEN "pr-" \o ToString(commit.pullNumber)
  ELSE "commit-" \o getShortSha(commit)

getFeatureBranchName(baseBranch, cs) ==
  LET refValues == slice(join([i \in 1..Len(cs) |-> getReferenceShort(cs[i])], "_"), SliceLimit)
  IN  "backport/" \o baseBranch \o "/" \o refValues

getPullRequestTitle(baseBranch, cs) ==
  LET commitMessages == slice(join([i \in 1..Len(cs) |-> cs[i].message], " | "), SliceLimit)
  IN  "[" \o baseBranch \o "] " \o commitMessages

\* one bullet of the pull-request body
commitRef(commit) ==
  LET ref == getReferenceLong(commit)
  IN  " - " \o replace(commit.message, "(" \o ref \o ")", "") \o " (" \o ref \o ")"

\* the head is named after the long references instead of the feature branch
getPullRequestPayload_OtherHead(baseBranch, cs, user) ==
  [ title |-> getPullRequestTitle(baseBranch, cs),
    body  |-> "Backports the following commits to " \o baseBranch \o ":\n"
                \o join([i \in 1..Len(cs) |-> commitRef(cs[i])], "\n"),
    head  |-> user \o ":backport/" \o baseBranch \o "/"
                \o join([i \in 1..Len(cs) |-> getReferenceLong(cs[i])], "_"),
    base  |-> baseBranch ]

getPullRequestPayload(baseBranch, cs, user) ==
  LET featureBranch == getFeatureBranchName(baseBranch, cs)
      commitRefs == join([i \in 1..Len(cs) |-> commitRef(cs[i])], "\n")
  IN  [ title |-> getPullRequestTitle(baseBranch, cs),
        body  |-> "Backports the following commits to " \o baseBranch \o ":\n" \o commitRefs,
        head  |-> user \o ":" \o featureBranch,
        base  |-> baseBranch ]

(***************************************************************************)
(* Errors.  An error carries its name, its message, the command that       *)
(* failed (child-process errors only) and whether it carries a structured  *)
(* API response (axios errors only).                                       *)
(***************************************************************************)
MkError(name, message, hasCmd, cmd, hasResponse) ==
  [ name |-> name, message |-> message, hasCmd |-> hasCmd, cmd |-> cmd,
    hasResponse |-> hasResponse ]

HandledError(message) == MkError("HandledError", message, FALSE, "", FALSE)
ExecError(cmd) == MkError("Error", "Command failed: " \o cmd, TRUE, cmd, FALSE)
PlainError(message) == MkError("Error", message, FALSE, "", FALSE)
ApiError == MkError("Error", "Request failed with status code 422", FALSE, "", TRUE)
NetworkError == MkError("Error", "connect ECONNREFUSED", FALSE, "", FALSE)
\* what `e.cmd.includes(...)` throws when e.cmd is undefined
TypeError == MkError("TypeError", "Cannot read property 'includes' of undefined", FALSE, "", FALSE)
AbortError_PlainError == PlainError("Application was aborted.")

\* the error confirmResolvedRecursive throws when the operator answers no
AbortError == HandledError("Application was aborted.")

getError_Identity(e) == e

\* github.ts getError: an error with a response body becomes a HandledError
getError(e) ==
  IF e.hasResponse
  THEN HandledError("{ \"message\": \"Validation Failed\", \"axiosUrl\": \"https://api.github.com\" }")
  ELSE e

handleErrorsSwallows_AlwaysThrows(e) == FALSE

\* handleErrors: TRUE when the error is swallowed, FALSE when it is re-thrown
handleErrorsSwallows(e) == e.name = "HandledError"

\* what handleErrors prints on console.error
handleErrorsOutput(e) ==
  IF e.name = "HandledError" THEN [kind |-> "message", text |-> e.message, error |-> e]
  ELSE [kind |-> "error", text |-> e.message, error |-> e]

(***************************************************************************)
(* Inputs of one run: doBackportVersions(owner, repoName, commits,         *)
(* branches, username, labels).                                            *)
(***************************************************************************)
owner == "elastic"
repoName == "kibana"
username == "sqren"

AllBranches == << "7.x", "6.x", "6.8" >>
AllCommits ==
  << [sha |-> "abc1234def", message |-> "Fix bug (#10)", hasPullNumber |-> TRUE, pullNumber |-> 10],
     [sha |-> "deadbeefcafe", message |-> "Add docs", hasPullNumber |-> FALSE, pullNumber |-> 0],
     [sha |-> "0f0f0f0f0f", message |-> "Bump deps", hasPullNumber |-> TRUE, pullNumber |-> 7] >>
LabelChoices == { <<>>, <<"backport">> }

\* the target branches and the commits are non-empty prefixes of the lists above
BranchLists == { SubSeq(AllBranches, 1, n) : n \in 1..Min(MaxBranches, Len(AllBranches)) }
CommitLists == { SubSeq(AllCommits, 1, n) : n \in 1..Min(MaxCommits, Len(AllCommits)) }

(***************************************************************************)
(* Values and promises.                                                    *)
(***************************************************************************)
Undefined == [type |-> "undefined"]
PullRequest(n) ==
  [ type |-> "object",
    html_url |-> "https://github.com/" \o owner \o "/" \o repoName \o "/pull/" \o ToString(n),
    number |-> n ]
\* the hosting service numbers the pull requests of the repository consecutively
FirstPullRequestNumber == 101

NoError == MkError("", "", FALSE, "", FALSE)

Waiting == [state |-> "waiting", value |-> Undefined, reason |-> NoError]
Running == [state |-> "running", value |-> Undefined, reason |-> NoError]
Resolved(v) == [state |-> "resolved", value |-> v, reason |-> NoError]
Rejected(e) == [state |-> "rejected", value |-> Undefined, reason |-> e]
NotCreated == [state |-> "none", value |-> Undefined, reason |-> NoError]
Settled(p) == p.state \in {"resolved", "rejected"}

\* no naming helper has been applied on its own
NotNamed == [fn |-> "none"]

(***************************************************************************)
(* State.                                                                  *)
(***************************************************************************)
VARIABLES
  branches,     \* the target branches, in order
  commits,      \* the commits to backport, in order
  labels,       \* the labels to attach
  step,         \* step[b]: promise of the b-th callback of sequentially(branches, ...)
  pipeline,     \* pipeline[b]: promise returned by doBackportVersion for branch b
  bpc,          \* bpc[b]: position of doBackportVersion for branch b
  pick,         \* pick[b][k]: promise of the k-th callback of sequentially(commits, ...)
  cpc,          \* cpc[b][k]: position of cherrypickAndConfirm for commit k of branch b
  pullRequest,  \* pullRequest[b]: the pull request created for branch b
  calls,        \* every collaborator call issued so far, in order
  returns,      \* the outcome of every collaborator call that has returned, in order
  logged,       \* logger.log output
  reported,     \* console.error output
  named,        \* the naming helper applied on its own, its argument and its result
  recording     \* TRUE: calls and returns hold the whole history of the run;
                \* FALSE: they hold the last call and the last outcome only

vars == << branches, commits, labels, step, pipeline, bpc, pick, cpc,
           pullRequest, calls, returns, logged, reported, named, recording >>

NB == Len(branches)
NC == Len(commits)
Branches == 1..NB
Commits == 1..NC

BranchOps == {"resetBranch", "createAndCheckoutBranch", "push", "createPullRequest", "addLabels"}
CommitOps == {"cherrypick", "confirmConflictResolved", "isIndexDirty"}

\* the collaborator operations that have been called and have not returned
InFlight ==
  { [op |-> bpc[b], branch |-> b, commit |-> 0] : b \in { x \in Branches : bpc[x] \in BranchOps } }
  \cup
  { [op |-> cpc[c[1]][c[2]], branch |-> c[1], commit |-> c[2]] :
      c \in { x \in Branches \X Commits : cpc[x[1]][x[2]] \in CommitOps } }

Call(op, b, k, args) ==
  LET c == [op |-> op, branch |-> b, commit |-> k, args |-> args]
  IN  calls' = IF recording THEN Append(calls, c) ELSE << c >>

Return(op, b, k, result, e) ==
  LET r == [op |-> op, branch |-> b, commit |-> k, result |-> result, error |-> e]
  IN  returns' = IF recording THEN Append(returns, r) ELSE << r >>

CallsOf(op, b, k) == { i \in 1..Len(calls) : calls[i].op = op /\ calls[i].branch = b /\ calls[i].commit = k }

ReturnsOf(op, b, k, result) ==
  { i \in 1..Len(returns) : /\ returns[i].op = op /\ returns[i].branch = b
                            /\ returns[i].commit = k /\ returns[i].result = result }

\* the number the hosting service gives to the next pull request it creates
NextPullRequestNumber ==
  FirstPullRequestNumber + Cardinality({ b \in Branches : pullRequest[b] # Undefined })

\* the confirmation prompts shown so far in the run
TotalPrompts == Cardinality({ i \in 1..Len(calls) : calls[i].op = "confirmConflictResolved" })

\* a run whose history is recorded shows at most MaxPrompts prompts
PromptAllowed == ~recording \/ TotalPrompts < MaxPrompts

Init ==
  /\ branches \in BranchLists
  /\ commits \in CommitLists
  /\ labels \in LabelChoices
  /\ step = [b \in 1..Len(branches) |-> Waiting]
  /\ pipeline = [b \in 1..Len(branches) |-> NotCreated]
  /\ bpc = [b \in 1..Len(branches) |-> "idle"]
  /\ pick = [b \in 1..Len(branches) |-> [k \in 1..Len(commits) |-> NotCreated]]
  /\ cpc = [b \in 1..Len(branches) |-> [k \in 1..Len(commits) |-> "idle"]]
  /\ pullRequest = [b \in 1..Len(branches) |-> Undefined]
  /\ calls = <<>>
  /\ returns = <<>>
  /\ logged = <<>>
  /\ reported = <<>>
  /\ named = NotNamed
  /\ recording = TRUE

(***************************************************************************)
(* sequentially(items, handler): items.reduce(async (p, item) => {         *)
(* await p; return handler(item) }, Promise.resolve()).  The callback of   *)
(* item i awaits the promise of item i-1 (an already resolved promise for  *)
(* i = 1): it calls handler(item) when that promise resolves and rejects   *)
(* with the same reason, without calling the handler, when it rejects.     *)
(***************************************************************************)
\* items.reduceRight: the callback of item i awaits that of item i+1
previous_Reversed(chain, i) ==
  IF i = Len(chain) THEN Resolved(Undefined)
  ELSE IF i > Len(chain) THEN chain[1]
  ELSE chain[i + 1]

previous(chain, i) == IF i = 1 THEN Resolved(Undefined) ELSE chain[i - 1]

sequentiallyCallsHandler_IgnoresRejection(p) == Settled(p)

sequentiallyCallsHandler_NoAwait(p) == TRUE

sequentiallyCallsHandler(p) == p.state = "resolved"
sequentiallyRethrows(p) == p.state = "rejected"

sequentially_First(chain) == IF Len(chain) = 0 THEN Resolved(Undefined) ELSE chain[1]

\* the promise sequentially(items, handler) returns: that of the last callback
sequentially(chain) == previous(chain, Len(chain) + 1)

callbackResult_ReturnsPullRequest(pr) == pr

\* the value the per-branch callback of doBackportVersions returns
callbackResult(pr) == Undefined

(***************************************************************************)
(* The per-branch callback of doBackportVersions settles: try/catch around *)
(* doBackportVersion, then handleErrors.                                   *)
(***************************************************************************)
BranchSucceeds(b, pr) ==
  /\ bpc' = [bpc EXCEPT ![b] = "done"]
  /\ pipeline' = [pipeline EXCEPT ![b] = Resolved(pr)]
  /\ logged' = Append(logged, "View pull request: " \o pr.html_url \o "\n")
  /\ step' = [step EXCEPT ![b] = Resolved(callbackResult(pr))]
  /\ UNCHANGED reported

BranchFails(b, e) ==
  /\ bpc' = [bpc EXCEPT ![b] = "done"]
  /\ pipeline' = [pipeline EXCEPT ![b] = Rejected(e)]
  /\ reported' = Append(reported, handleErrorsOutput(e))
  /\ step' = [step EXCEPT ![b] =
                IF handleErrorsSwallows(e) THEN Resolved(Undefined) ELSE Rejected(e)]
  /\ UNCHANGED logged

(***************************************************************************)
(* Outcomes of the collaborators (src/lib/git, src/lib/prompts, axios).    *)
(***************************************************************************)
GitFailures(cmd) == { ExecError(cmd) }
CherrypickFailures(sha) ==
  { ExecError("git cherry-pick " \o sha), ExecError("git fetch origin"),
    PlainError("spawn git ENOENT") }
AxiosFailures == { ApiError, NetworkError }

(***************************************************************************)
(* doBackportVersions: the callback of branch b in sequentially(branches,  *)
(* ...).  When the previous callback's promise resolves, doBackportVersion *)
(* starts: the feature branch name is computed, the backport is announced  *)
(* and resetBranch is called.                                              *)
(***************************************************************************)
StartBranch(b) ==
  /\ step[b].state = "waiting"
  /\ sequentiallyCallsHandler(previous(step, b))
  /\ step' = [step EXCEPT ![b] = Running]
  /\ pipeline' = [pipeline EXCEPT ![b] = Running]
  /\ bpc' = [bpc EXCEPT ![b] = "resetBranch"]
  /\ logged' = Append(logged,
       "Backporting "
         \o join([i \in 1..Len(commits) |-> getReferenceLong(commits[i])], ", ")
         \o " to " \o branches[b])
  /\ Call("resetBranch", b, 0, [owner |-> owner, repoName |-> repoName])
  /\ UNCHANGED << recording, named, branches, commits, labels, pick, cpc, pullRequest, returns, reported >>

\* `await p` throws in the callback of branch b: the handler is not called
SkipBranch(b) ==
  /\ step[b].state = "waiting"
  /\ sequentiallyRethrows(previous(step, b))
  /\ step' = [step EXCEPT ![b] = Rejected(previous(step, b).reason)]
  /\ UNCHANGED << recording, named, branches, commits, labels, pipeline, bpc, pick, cpc, pullRequest,
                  calls, returns, logged, reported >>

(***************************************************************************)
(* doBackportVersion, step 'Pulling latest changes'.                       *)
(***************************************************************************)
resetBranchReturns(b) ==
  /\ bpc[b] = "resetBranch"
  /\ \/ /\ Return("resetBranch", b, 0, "ok", NoError)
        /\ bpc' = [bpc EXCEPT ![b] = "createAndCheckoutBranch"]
        /\ Call("createAndCheckoutBranch", b, 0,
                [owner |-> owner, repoName |-> repoName, baseBranch |-> branches[b],
                 featureBranch |-> getFeatureBranchName(branches[b], commits)])
        /\ UNCHANGED << step, pipeline, logged, reported >>
     \/ \E e \in GitFailures("git reset --hard") :
          /\ Return("resetBranch", b, 0, "error", e)
          /\ BranchFails(b, e)
          /\ UNCHANGED calls
  /\ UNCHANGED << recording, named, branches, commits, labels, pick, cpc, pullRequest >>

\* the failure of createAndCheckoutBranch is swallowed
createAndCheckoutBranchReturns_IgnoresFailure(b) ==
  /\ bpc[b] = "createAndCheckoutBranch"
  /\ \E e \in GitFailures("git checkout -B") :
       Return("createAndCheckoutBranch", b, 0, "error", e)
  /\ bpc' = [bpc EXCEPT ![b] = "cherrypicks"]
  /\ pick' = [pick EXCEPT ![b] = [k \in Commits |-> Waiting]]
  /\ UNCHANGED << recording, named, branches, commits, labels, step, pipeline, cpc, pullRequest,
                  calls, logged, reported >>

\* on success sequentially(commits, ...) creates the chain of commit callbacks
createAndCheckoutBranchReturns(b) ==
  /\ bpc[b] = "createAndCheckoutBranch"
  /\ \/ /\ Return("createAndCheckoutBranch", b, 0, "ok", NoError)
        /\ bpc' = [bpc EXCEPT ![b] = "cherrypicks"]
        /\ pick' = [pick EXCEPT ![b] = [k \in Commits |-> Waiting]]
        /\ UNCHANGED << step, pipeline, logged, reported >>
     \/ \E e \in GitFailures("git checkout -B") :
          /\ Return("createAndCheckoutBranch", b, 0, "error", e)
          /\ BranchFails(b, e)
          /\ UNCHANGED pick
  /\ UNCHANGED << recording, named, branches, commits, labels, cpc, pullRequest, calls >>

(***************************************************************************)
(* The callback of commit k in sequentially(commits, ...) and              *)
(* cherrypickAndConfirm.                                                   *)
(***************************************************************************)
StartCommit(b, k) ==
  /\ bpc[b] = "cherrypicks"
  /\ pick[b][k].state = "waiting"
  /\ sequentiallyCallsHandler(previous(pick[b], k))
  /\ pick' = [pick EXCEPT ![b][k] = Running]
  /\ cpc' = [cpc EXCEPT ![b][k] = "cherrypick"]
  /\ Call("cherrypick", b, k, [owner |-> owner, repoName |-> repoName, sha |-> commits[k].sha])
  /\ UNCHANGED << recording, named, branches, commits, labels, step, pipeline, bpc, pullRequest,
                  returns, logged, reported >>

SkipCommit(b, k) ==
  /\ bpc[b] = "cherrypicks"
  /\ pick[b][k].state = "waiting"
  /\ sequentiallyRethrows(previous(pick[b], k))
  /\ pick' = [pick EXCEPT ![b][k] = Rejected(previous(pick[b], k).reason)]
  /\ UNCHANGED << recording, named, branches, commits, labels, step, pipeline, bpc, cpc, pullRequest,
                  calls, returns, logged, reported >>

\* the catch block of cherrypickAndConfirm: what happens with the error e
\* of the cherry-pick step
cherrypickCatch(e) ==
  IF ~e.hasCmd THEN [confirm |-> FALSE, thrown |-> TypeError]
  ELSE IF ~includes(e.cmd, "git cherry-pick") THEN [confirm |-> FALSE, thrown |-> e]
  ELSE [confirm |-> TRUE, thrown |-> NoError]

afterConfirm_IgnoresAnswer(res) == "isIndexDirty"

\* confirmResolvedRecursive after the prompt returned res
afterConfirm(res) == IF ~res THEN "abort" ELSE "isIndexDirty"

afterDirtyCheck_IgnoresDirty(isDirty) == "resolved"

afterDirtyCheck_AlwaysPromptsAgain(isDirty) == "confirm"

\* confirmResolvedRecursive after the dirtiness check returned isDirty
afterDirtyCheck(isDirty) == IF isDirty THEN "confirm" ELSE "resolved"

CommitSettles(b, k, p) ==
  /\ pick' = [pick EXCEPT ![b][k] = p]
  /\ cpc' = [cpc EXCEPT ![b][k] = "done"]
  /\ UNCHANGED calls

Confirm(b, k) ==
  /\ cpc' = [cpc EXCEPT ![b][k] = "confirmConflictResolved"]
  /\ Call("confirmConflictResolved", b, k, [owner |-> owner, repoName |-> repoName])
  /\ UNCHANGED pick

CheckDirty(b, k) ==
  /\ cpc' = [cpc EXCEPT ![b][k] = "isIndexDirty"]
  /\ Call("isIndexDirty", b, k, [owner |-> owner, repoName |-> repoName])
  /\ UNCHANGED pick

cherrypickReturns(b, k) ==
  /\ cpc[b][k] = "cherrypick"
  /\ \/ /\ Return("cherrypick", b, k, "ok", NoError)
        /\ CommitSettles(b, k, Resolved(Undefined))
     \/ \E e \in CherrypickFailures(commits[k].sha) :
          /\ cherrypickCatch(e).confirm => PromptAllowed
          /\ Return("cherrypick", b, k, "error", e)
          /\ IF cherrypickCatch(e).confirm
             THEN Confirm(b, k)
             ELSE CommitSettles(b, k, Rejected(cherrypickCatch(e).thrown))
  /\ UNCHANGED << recording, named, branches, commits, labels, step, pipeline, bpc, pullRequest, logged, reported >>

(***************************************************************************)
(* confirmResolvedRecursive.  The number of prompts of one conflict loop   *)
(* is unbounded in the code.  A run whose history is recorded shows at     *)
(* most MaxPrompts prompts: once they are used up no cherry-pick conflicts *)
(* any more and no dirtiness check answers "still dirty".  A run whose     *)
(* history is not recorded (LiveSpec) has no such limit.                   *)
(***************************************************************************)
confirmConflictResolvedReturns(b, k) ==
  /\ cpc[b][k] = "confirmConflictResolved"
  /\ \E res \in BOOLEAN :
          /\ Return("confirmConflictResolved", b, k, IF res THEN "true" ELSE "false", NoError)
          /\ IF afterConfirm(res) = "abort"
             THEN CommitSettles(b, k, Rejected(AbortError))
             ELSE CheckDirty(b, k)
  /\ UNCHANGED << recording, named, branches, commits, labels, step, pipeline, bpc, pullRequest, logged, reported >>

\* a conflict that was resolved still fails the commit
isIndexDirtyReturns_ResolvedFails(b, k) ==
  /\ cpc[b][k] = "isIndexDirty"
  /\ Return("isIndexDirty", b, k, "false", NoError)
  /\ CommitSettles(b, k, Rejected(AbortError))
  /\ UNCHANGED << recording, named, branches, commits, labels, step, pipeline, bpc, pullRequest,
                  logged, reported >>

isIndexDirtyReturns(b, k) ==
  /\ cpc[b][k] = "isIndexDirty"
  /\ \/ \E isDirty \in BOOLEAN :
          /\ isDirty => PromptAllowed
          /\ Return("isIndexDirty", b, k, IF isDirty THEN "true" ELSE "false", NoError)
          /\ IF afterDirtyCheck(isDirty) = "confirm"
             THEN Confirm(b, k)
             ELSE CommitSettles(b, k, Resolved(Undefined))
     \/ \E e \in GitFailures("git diff-index") :
          /\ Return("isIndexDirty", b, k, "error", e)
          /\ CommitSettles(b, k, Rejected(e))
  /\ UNCHANGED << recording, named, branches, commits, labels, step, pipeline, bpc, pullRequest, logged, reported >>

(***************************************************************************)
(* doBackportVersion after `await sequentially(commits, ...)`: push, then  *)
(* the pull request and its labels.                                        *)
(***************************************************************************)
cherrypicksSettle(b) ==
  /\ bpc[b] = "cherrypicks"
  /\ \/ /\ sequentially(pick[b]).state = "resolved"
        /\ bpc' = [bpc EXCEPT ![b] = "push"]
        /\ Call("push", b, 0,
                [owner |-> owner, repoName |-> repoName, username |-> username,
                 featureBranch |-> getFeatureBranchName(branches[b], commits)])
        /\ UNCHANGED << step, pipeline, logged, reported >>
     \/ /\ sequentially(pick[b]).state = "rejected"
        /\ BranchFails(b, sequentially(pick[b]).reason)
        /\ UNCHANGED calls
  /\ UNCHANGED << recording, named, branches, commits, labels, pick, cpc, pullRequest, returns >>

\* the failure of push is swallowed
pushReturns_IgnoresFailure(b) ==
  /\ bpc[b] = "push"
  /\ \E e \in GitFailures("git push") : Return("push", b, 0, "error", e)
  /\ bpc' = [bpc EXCEPT ![b] = "createPullRequest"]
  /\ Call("createPullRequest", b, 0,
          [owner |-> owner, repoName |-> repoName,
           payload |-> getPullRequestPayload(branches[b], commits, username)])
  /\ UNCHANGED << recording, named, branches, commits, labels, step, pipeline, pick, cpc,
                  pullRequest, logged, reported >>

pushReturns(b) ==
  /\ bpc[b] = "push"
  /\ \/ /\ Return("push", b, 0, "ok", NoError)
        /\ bpc' = [bpc EXCEPT ![b] = "createPullRequest"]
        /\ Call("createPullRequest", b, 0,
                [owner |-> owner, repoName |-> repoName,
                 payload |-> getPullRequestPayload(branches[b], commits, username)])
        /\ UNCHANGED << step, pipeline, logged, reported >>
     \/ \E e \in GitFailures("git push") :
          /\ Return("push", b, 0, "error", e)
          /\ BranchFails(b, e)
          /\ UNCHANGED calls
  /\ UNCHANGED << recording, named, branches, commits, labels, pick, cpc, pullRequest >>

\* the labels are never attached
createPullRequestReturns_SkipsLabels(b) ==
  /\ bpc[b] = "createPullRequest"
  /\ Return("createPullRequest", b, 0, "ok", NoError)
  /\ pullRequest' = [pullRequest EXCEPT ![b] = PullRequest(NextPullRequestNumber)]
  /\ BranchSucceeds(b, PullRequest(NextPullRequestNumber))
  /\ UNCHANGED << recording, named, branches, commits, labels, pick, cpc, calls >>

\* github.createPullRequest throws getError(e) when the request (axios.post)
\* fails with e; `returns` records the outcome of the request
createPullRequestReturns(b) ==
  /\ bpc[b] = "createPullRequest"
  /\ \/ LET n == NextPullRequestNumber IN
          /\ Return("createPullRequest", b, 0, "ok", NoError)
          /\ pullRequest' = [pullRequest EXCEPT ![b] = PullRequest(n)]
          /\ IF Len(labels) > 0
             THEN /\ bpc' = [bpc EXCEPT ![b] = "addLabels"]
                  /\ Call("addLabels", b, 0,
                          [owner |-> owner, repoName |-> repoName, pullNumber |-> n,
                           labels |-> labels])
                  /\ UNCHANGED << step, pipeline, logged, reported >>
             ELSE /\ BranchSucceeds(b, PullRequest(n))
                  /\ UNCHANGED calls
     \/ \E e \in AxiosFailures :
          /\ Return("createPullRequest", b, 0, "error", e)
          /\ BranchFails(b, getError(e))
          /\ UNCHANGED << calls, pullRequest >>
  /\ UNCHANGED << recording, named, branches, commits, labels, pick, cpc >>

\* github.addLabels throws getError(e) when the request fails
addLabelsReturns(b) ==
  /\ bpc[b] = "addLabels"
  /\ \/ /\ Return("addLabels", b, 0, "ok", NoError)
        /\ BranchSucceeds(b, pullRequest[b])
     \/ \E e \in AxiosFailures :
          /\ Return("addLabels", b, 0, "error", e)
          /\ BranchFails(b, getError(e))
  /\ UNCHANGED << recording, named, branches, commits, labels, pick, cpc, pullRequest, calls >>

Next ==
  \/ \E b \in Branches : StartBranch(b)
  \/ \E b \in Branches : SkipBranch(b)
  \/ \E b \in Branches : resetBranchReturns(b)
  \/ \E b \in Branches : createAndCheckoutBranchReturns(b)
  \/ \E b \in Branches, k \in Commits : StartCommit(b, k)
  \/ \E b \in Branches, k \in Commits : SkipCommit(b, k)
  \/ \E b \in Branches, k \in Commits : cherrypickReturns(b, k)
  \/ \E b \in Branches, k \in Commits : confirmConflictResolvedReturns(b, k)
  \/ \E b \in Branches, k \in Commits : isIndexDirtyReturns(b, k)
  \/ \E b \in Branches : cherrypicksSettle(b)
  \/ \E b \in Branches : pushReturns(b)
  \/ \E b \in Branches : createPullRequestReturns(b)
  \/ \E b \in Branches : addLabelsReturns(b)

Spec == Init /\ [][Next]_vars

TypeOK ==
  /\ \A b \in Branches : step[b].state \in {"waiting", "running", "resolved", "rejected"}
  /\ \A b \in Branches : bpc[b] \in {"idle", "cherrypicks", "done"} \cup BranchOps

(***************************************************************************)
(* Vocabulary of the properties.                                           *)
(***************************************************************************)
Started(b) == pipeline[b].state # "none"
Terminated == \A b \in Branches : Settled(step[b])

\* the pipeline of branch b failed with an expected / an unrecognized failure
HandledFailure(b) == pipeline[b].state = "rejected" /\ pipeline[b].reason.name = "HandledError"
UnhandledFailure(b) == pipeline[b].state = "rejected" /\ pipeline[b].reason.name # "HandledError"

CallsOfBranch(b) == { i \in 1..Len(calls) : calls[i].branch = b }
Reported(kind, e) ==
  \E i \in 1..Len(reported) :
    reported[i].kind = kind /\ reported[i].error = e /\ reported[i].text = e.message

\* the promise doBackportVersions returns
run == sequentially(step)

(***************************************************************************)
(* C1: when the pipeline of branch i fails with a HandledError, the        *)
(* message of the failure is reported, the callback of branch i resolves,  *)
(* and the pipelines of the later branches are still started, in list      *)
(* order: branch i+1 is not skipped and, as long as no branch in between   *)
(* rejects, every later branch j is started once the run has terminated;   *)
(* calls are issued in the order of the branch list.                       *)
(***************************************************************************)
C1_HandledFailureContinues ==
  /\ \A i \in Branches :
       HandledFailure(i) =>
         /\ Reported("message", pipeline[i].reason)
         /\ step[i].state = "resolved"
         /\ \A j \in Branches :
              (j > i /\ \A m \in i..(j - 1) : step[m].state = "resolved") =>
                 /\ step[j].state = "waiting" \/ Started(j)
                 /\ Terminated => Started(j)
  /\ \A x \in 1..(Len(calls) - 1) : calls[x].branch <= calls[x + 1].branch

C1_Witness ==
  \E i, j \in Branches :
    /\ j > i
    /\ HandledFailure(i)
    /\ CallsOfBranch(j) # {}
    /\ Terminated

(***************************************************************************)
(* C2 (as stated): with branches [A, B], A failing with an expected        *)
(* failure and B succeeding, the run resolves to B's pull request.         *)
(***************************************************************************)
C2_Scenario ==
  /\ NB = 2
  /\ HandledFailure(1)
  /\ pipeline[2].state = "resolved"

C2_ReturnsPullRequest ==
  C2_Scenario => (run.state = "resolved" /\ run.value = pipeline[2].value)

(***************************************************************************)
(* C2 (amended): in that scenario the run resolves to no value             *)
(* (undefined); A's failure is reported and the url of B's pull request is *)
(* the last line logged.                                                   *)
(***************************************************************************)
C2_ResolvesUndefinedLogsPullRequest ==
  C2_Scenario =>
    /\ run.state = "resolved"
    /\ run.value = Undefined
    /\ pipeline[2].value = pullRequest[2]
    /\ pullRequest[2] = PullRequest(NextPullRequestNumber - 1)
    /\ Reported("message", pipeline[1].reason)
    /\ logged[Len(logged)] = "View pull request: " \o pullRequest[2].html_url \o "\n"

C2_Witness == C2_Scenario /\ Terminated

(***************************************************************************)
(* C3: when the pipeline of branch i fails with an error that is not a     *)
(* HandledError, the error is reported, the run rejects with that error,   *)
(* and no collaborator operation is issued for any later branch.           *)
(***************************************************************************)
C3_UnhandledFailureStopsRun ==
  \A i \in Branches :
    UnhandledFailure(i) =>
      /\ Reported("error", pipeline[i].reason)
      /\ step[i] = Rejected(pipeline[i].reason)
      /\ \A j \in Branches :
           j > i =>
             /\ ~Started(j)
             /\ CallsOfBranch(j) = {}
             /\ step[j] \in {Waiting, Rejected(pipeline[i].reason)}
      /\ Terminated => run = Rejected(pipeline[i].reason)

C3_Witness ==
  \E i, j \in Branches :
    /\ j > i
    /\ UnhandledFailure(i)
    /\ step[j].state = "rejected"
    /\ Terminated

(***************************************************************************)
(* C4: at most one collaborator operation is in flight; a pipeline is      *)
(* started only after the pipelines of all earlier branches have settled,  *)
(* and cherrypickAndConfirm of commit k+1 is entered only after that of    *)
(* commit k has settled.                                                   *)
(***************************************************************************)
C4_NoOverlap ==
  /\ Cardinality(InFlight) <= 1
  /\ \A i, j \in Branches :
       (i < j /\ Started(j)) => (Settled(pipeline[i]) /\ bpc[i] = "done")
  /\ \A b \in Branches : \A k, m \in Commits :
       (k < m /\ cpc[b][m] # "idle") => (Settled(pick[b][k]) /\ cpc[b][k] = "done")

C4_Witness ==
  /\ NB >= 2 /\ NC >= 2
  /\ InFlight = { [op |-> "confirmConflictResolved", branch |-> 2, commit |-> 2] }
  /\ Settled(pipeline[1])

(***************************************************************************)
(* C5: when cherrypickAndConfirm of a commit fails, no later commit of the *)
(* branch is cherry-picked and neither push nor createPullRequest is       *)
(* called for the branch; push is called only when every commit of the     *)
(* list ended clean or resolved (cherrypickAndConfirm returned normally).  *)
(***************************************************************************)
CommitFailed(b, k) == pick[b][k].state = "rejected" /\ cpc[b][k] = "done"

\* cherrypickAndConfirm of commit k returned normally
CleanOrResolved(b, k) == pick[b][k].state = "resolved" /\ cpc[b][k] = "done"

PushedBranches == { calls[i].branch : i \in { j \in 1..Len(calls) : calls[j].op = "push" } }

C5_FailedCommitStopsBranch ==
  /\ \A b \in Branches : \A k \in Commits :
       CommitFailed(b, k) =>
         \A i \in 1..Len(calls) :
           calls[i].branch = b =>
             /\ calls[i].op \notin {"push", "createPullRequest"}
             /\ calls[i].op = "cherrypick" => calls[i].commit <= k
  /\ \A b \in PushedBranches : \A k \in Commits : CleanOrResolved(b, k)

C5_Witness ==
  \E b \in Branches :
    /\ NC >= 2
    /\ CommitFailed(b, 1)
    /\ Settled(pipeline[b])

(***************************************************************************)
(* C6: in one branch pipeline the shas passed to cherrypick are a prefix   *)
(* of the shas of the commits list, each commit at most once; it is the    *)
(* whole list when the branch is pushed; the body of the pull request      *)
(* being created (the payload of the createPullRequest call in flight)     *)
(* has, after its header line, one bullet per commit, in the order of the  *)
(* list.                                                                   *)
(***************************************************************************)
RECURSIVE Lines(_)
Lines(s) ==
  LET i == indexOf(s, "\n")
  IN  IF i = 0 THEN << s >>
      ELSE << SubSeq(s, 1, i - 1) >> \o Lines(SubSeq(s, i + 1, Len(s)))

startsWith(s, pre) == Len(s) >= Len(pre) /\ SubSeq(s, 1, Len(pre)) = pre
endsWith(s, suf) == Len(s) >= Len(suf) /\ SubSeq(s, Len(s) - Len(suf) + 1, Len(s)) = suf

IsCherrypickOf(b, c) == c.op = "cherrypick" /\ c.branch = b
PickedShas(b) ==
  LET sel == SelectSeq(calls, LAMBDA c : IsCherrypickOf(b, c))
  IN  [i \in 1..Len(sel) |-> sel[i].args.sha]

ReferenceOf(commit) ==
  IF commit.hasPullNumber /\ commit.pullNumber > 0
  THEN "#" \o ToString(commit.pullNumber)
  ELSE SubSeq(commit.sha, 1, 7)

C6_CommitOrderPreserved ==
  \A b \in Branches :
    /\ LET shas == PickedShas(b)
       IN  /\ Len(shas) <= NC
           /\ \A i \in 1..Len(shas) : shas[i] = commits[i].sha
           /\ CallsOf("push", b, 0) # {} => Len(shas) = NC
    /\ bpc[b] = "createPullRequest" =>
         LET lines == Lines(calls[Len(calls)].args.payload.body)
         IN  /\ calls[Len(calls)].op = "createPullRequest"
             /\ Len(lines) = NC + 1
             /\ \A k \in Commits :
                  /\ startsWith(lines[k + 1], " - ")
                  /\ endsWith(lines[k + 1], " (" \o ReferenceOf(commits[k]) \o ")")

C6_Witness ==
  \E b \in Branches :
    /\ NC >= 2
    /\ bpc[b] = "createPullRequest"
    /\ Len(PickedShas(b)) = NC

(***************************************************************************)
(* C7: in the conflict loop of one commit, cherrypick is called once for   *)
(* the commit and never again after the conflict; every dirtiness check    *)
(* that returned true is followed by another confirmation prompt; the      *)
(* number of prompts is 1 plus the number of dirtiness checks that         *)
(* returned true; and a loop that ends resolved ends on a dirtiness check  *)
(* that returned false.                                                    *)
(***************************************************************************)
\* the calls issued for commit k of branch b, and their outcomes, in order
\* (the i-th outcome is that of the i-th call)
CallsOfCommit(b, k) == SelectSeq(calls, LAMBDA c : c.branch = b /\ c.commit = k)
ReturnsOfCommit(b, k) == SelectSeq(returns, LAMBDA r : r.branch = b /\ r.commit = k)

Count(seq, op, result) ==
  Cardinality({ i \in 1..Len(seq) : seq[i].op = op /\ seq[i].result = result })
CountCalls(seq, op) == Cardinality({ i \in 1..Len(seq) : seq[i].op = op })

\* the commits (branch, commit) whose cherry-pick conflicted: a prompt was shown
ConflictedCommits ==
  { << calls[i].branch, calls[i].commit >> :
      i \in { j \in 1..Len(calls) : calls[j].op = "confirmConflictResolved" } }

C7_ConflictLoop ==
  \A c \in ConflictedCommits :
    LET cs == CallsOfCommit(c[1], c[2])
        rs == ReturnsOfCommit(c[1], c[2])
    IN  /\ cs[1].op = "cherrypick" /\ rs[1].result = "error"
        /\ \A i \in 2..Len(cs) : cs[i].op # "cherrypick"
        /\ \A i \in 1..Len(rs) :
             (rs[i].op = "isIndexDirty" /\ rs[i].result = "true") =>
               (Len(cs) > i /\ cs[i + 1].op = "confirmConflictResolved")
        /\ CountCalls(cs, "confirmConflictResolved") = 1 + Count(rs, "isIndexDirty", "true")
        /\ pick[c[1]][c[2]].state = "resolved" =>
             /\ rs[Len(rs)].op = "isIndexDirty" /\ rs[Len(rs)].result = "false"
             /\ Len(cs) = Len(rs)

C7_Witness ==
  \E c \in ConflictedCommits :
    /\ pick[c[1]][c[2]].state = "resolved"
    /\ CountCalls(CallsOfCommit(c[1], c[2]), "confirmConflictResolved") = 2
    /\ Count(ReturnsOfCommit(c[1], c[2]), "isIndexDirty", "true") = 1

(***************************************************************************)
(* C8: when a confirmation prompt of the conflict loop is answered no, the *)
(* commit fails with the HandledError 'Application was aborted.', no       *)
(* dirtiness check is made for that answer (nothing is called for the      *)
(* commit afterwards) and no later commit of the branch is cherry-picked.  *)
(***************************************************************************)
Declined(b, k) == ReturnsOf("confirmConflictResolved", b, k, "false") # {}

C8_DeclineAborts ==
  \A c \in ConflictedCommits :
    LET b == c[1]
        k == c[2]
        cs == CallsOfCommit(b, k)
        rs == ReturnsOfCommit(b, k)
    IN  Count(rs, "confirmConflictResolved", "false") > 0 =>
          /\ pick[b][k].state = "rejected"
          /\ pick[b][k].reason.name = "HandledError"
          /\ pick[b][k].reason.message = "Application was aborted."
          /\ cpc[b][k] = "done"
          /\ rs[Len(rs)].op = "confirmConflictResolved" /\ rs[Len(rs)].result = "false"
          /\ Len(cs) = Len(rs)
          /\ CountCalls(cs, "isIndexDirty") = Count(rs, "confirmConflictResolved", "true")
          /\ \A m \in Commits : m > k => cpc[b][m] = "idle" /\ CallsOfCommit(b, m) = << >>

C8_Witness ==
  \E b \in Branches :
    /\ NC >= 2
    /\ Declined(b, 1)
    /\ CountCalls(CallsOfCommit(b, 1), "confirmConflictResolved") = 2
    /\ Settled(pipeline[b])

(***************************************************************************)
(* C9 (as stated): the conflict loop is entered only for an error of the   *)
(* cherry-pick step whose command is the cherry-pick invocation; with any  *)
(* other error, an error without a command included, no prompt is shown    *)
(* and the commit fails with that very error.                              *)
(***************************************************************************)
IsConflict(e) == e.hasCmd /\ includes(e.cmd, "git cherry-pick")

C9_OtherErrorsPropagateUnchanged ==
  \A b \in Branches : \A k \in Commits :
    \A i \in ReturnsOf("cherrypick", b, k, "error") :
      ~IsConflict(returns[i].error) =>
        /\ CallsOf("confirmConflictResolved", b, k) = {}
        /\ pick[b][k] = Rejected(returns[i].error)

(***************************************************************************)
(* C10 (as stated): when the operator declines during the conflict loop of *)
(* branch i, no operation is performed for any later branch.               *)
(***************************************************************************)
DeclinedIn(i) == \E k \in Commits : Declined(i, k)

C10_DeclineAbortsRun ==
  \A i, j \in Branches : (DeclinedIn(i) /\ j > i) => CallsOfBranch(j) = {}

(***************************************************************************)
(* C10 (amended): when the operator declines during the conflict loop of   *)
(* branch i, only the pipeline of branch i is aborted: it fails with the   *)
(* HandledError 'Application was aborted.', which is reported, the run     *)
(* goes on with the next branch, and nothing is called any more for the    *)
(* branches before i, which had all settled.                               *)
(***************************************************************************)
C10_DeclineAbortsBranchOnly ==
  \A i \in Branches :
    DeclinedIn(i) =>
      /\ Settled(pipeline[i]) =>
           /\ pipeline[i].state = "rejected"
           /\ pipeline[i].reason.name = "HandledError"
           /\ pipeline[i].reason.message = "Application was aborted."
           /\ Reported("message", pipeline[i].reason)
           /\ step[i].state = "resolved"
           /\ i < NB => (step[i + 1].state = "waiting" \/ Started(i + 1))
      /\ (Terminated /\ i < NB) => Started(i + 1)
      /\ \A j \in Branches :
           j < i =>
             /\ Settled(pipeline[j])
             /\ \A x \in 1..(Len(calls) - 1) :
                  calls[x].branch >= i => calls[x + 1].branch # j

C10_Witness ==
  \E i \in Branches :
    /\ i < NB
    /\ DeclinedIn(i)
    /\ CallsOfBranch(i + 1) # {}
    /\ Terminated

(***************************************************************************)
(* C11 (as stated): when the request of createPullRequest or addLabels of  *)
(* branch i fails with an API error response (an error carrying a          *)
(* response body), the callback of branch i rejects with it and no         *)
(* operation is issued for any later branch.                               *)
(***************************************************************************)
\* the requests of the hosting API that failed with an error response
ApiErrorResponses ==
  { i \in 1..Len(returns) : returns[i].op \in {"createPullRequest", "addLabels"}
                            /\ returns[i].error.hasResponse }

\* the requests of the hosting API that failed without a response
RequestFailures ==
  { i \in 1..Len(returns) : /\ returns[i].op \in {"createPullRequest", "addLabels"}
                            /\ returns[i].result = "error"
                            /\ ~returns[i].error.hasResponse }

C11_ApiErrorTerminatesRun ==
  \A i \in ApiErrorResponses :
    /\ step[returns[i].branch].state = "rejected"
    /\ \A j \in Branches : j > returns[i].branch => CallsOfBranch(j) = {}

(***************************************************************************)
(* C11 (amended): an API error response of createPullRequest or addLabels  *)
(* reaches the coordinator as a HandledError carrying the response body:   *)
(* the pipeline of the branch fails with it, it is reported as a message,  *)
(* the callback of the branch resolves and the next branch is still        *)
(* processed.  A failure of the request without a response (a network      *)
(* error) is re-raised unchanged: the callback of the branch rejects with  *)
(* it and nothing is called for any later branch.                          *)
(***************************************************************************)
C11_ApiErrorIsHandled ==
  /\ \A i \in ApiErrorResponses :
       LET b == returns[i].branch
       IN  /\ pipeline[b] = Rejected(getError(returns[i].error))
           /\ pipeline[b].reason.name = "HandledError"
           /\ pipeline[b].reason # returns[i].error
           /\ Reported("message", pipeline[b].reason)
           /\ step[b] = Resolved(Undefined)
           /\ b < NB => (step[b + 1].state = "waiting" \/ Started(b + 1))
           /\ (Terminated /\ b < NB) => Started(b + 1)
  /\ \A i \in RequestFailures :
       LET b == returns[i].branch
       IN  /\ pipeline[b] = Rejected(returns[i].error)
           /\ Reported("error", returns[i].error)
           /\ step[b] = Rejected(returns[i].error)
           /\ \A j \in Branches : j > b => ~Started(j)

C11_Witness ==
  \E i \in ApiErrorResponses :
    /\ returns[i].op = "addLabels"
    /\ returns[i].branch < NB
    /\ CallsOfBranch(returns[i].branch + 1) # {}
    /\ Terminated

(***************************************************************************)
(* The naming helpers on their own: getReferenceLong, getReferenceShort,   *)
(* getFeatureBranchName, getPullRequestTitle and getPullRequestPayload are *)
(* pure functions of (baseBranch, commits, username).  NamingSpec draws    *)
(* a base branch and a list of commits and applies one helper to them;     *)
(* the orchestration is not started.                                       *)
(***************************************************************************)
MaxNamingCommits == 2

NamingShas == { "abc1234def", "deadbeefcafe" }
NamingPullNumbers == { 0, 10, 42 }
NamingMessages ==
  { "Fix bug (#10)", "Fix bug", "Revert (#42) (#42)", "Fix (#0)", "Add docs (deadbee)" }

\* commits with a pull number (0 included) and commits without one
NamingCommits ==
  { [sha |-> s, message |-> m, hasPullNumber |-> TRUE, pullNumber |-> n] :
      s \in NamingShas, m \in NamingMessages, n \in NamingPullNumbers }
  \cup
  { [sha |-> s, message |-> m, hasPullNumber |-> FALSE, pullNumber |-> 0] :
      s \in NamingShas, m \in NamingMessages }

NamingCommitLists ==
  UNION { [1..n -> NamingCommits] : n \in 1..MaxNamingCommits }

NamingInit ==
  /\ branches \in { << AllBranches[i] >> : i \in 1..2 }
  /\ commits \in NamingCommitLists
  /\ labels = <<>>
  /\ step = [b \in 1..Len(branches) |-> Waiting]
  /\ pipeline = [b \in 1..Len(branches) |-> NotCreated]
  /\ bpc = [b \in 1..Len(branches) |-> "idle"]
  /\ pick = [b \in 1..Len(branches) |-> [k \in 1..Len(commits) |-> NotCreated]]
  /\ cpc = [b \in 1..Len(branches) |-> [k \in 1..Len(commits) |-> "idle"]]
  /\ pullRequest = [b \in 1..Len(branches) |-> Undefined]
  /\ calls = <<>>
  /\ returns = <<>>
  /\ logged = <<>>
  /\ reported = <<>>
  /\ named = NotNamed
  /\ recording = TRUE

Apply(fn, k, value) ==
  /\ named = NotNamed
  /\ named' = [fn |-> fn, commit |-> k, value |-> value]
  /\ UNCHANGED << recording, branches, commits, labels, step, pipeline, bpc, pick, cpc,
                  pullRequest, calls, returns, logged, reported >>

ApplyGetReferenceLong(k) == Apply("getReferenceLong", k, getReferenceLong(commits[k]))

ApplyGetReferenceShort(k) == Apply("getReferenceShort", k, getReferenceShort(commits[k]))

ApplyGetFeatureBranchName ==
  Apply("getFeatureBranchName", 0, getFeatureBranchName(branches[1], commits))

ApplyGetPullRequestTitle ==
  Apply("getPullRequestTitle", 0, getPullRequestTitle(branches[1], commits))

ApplyGetPullRequestPayload ==
  Apply("getPullRequestPayload", 0, getPullRequestPayload(branches[1], commits, username))

NamingNext ==
  \/ \E k \in Commits : ApplyGetReferenceLong(k)
  \/ \E k \in Commits : ApplyGetReferenceShort(k)
  \/ ApplyGetFeatureBranchName
  \/ ApplyGetPullRequestTitle
  \/ ApplyGetPullRequestPayload

NamingSpec == NamingInit /\ [][NamingNext]_vars

(***************************************************************************)
(* C12 (as stated): for every commit with a present pull number (0         *)
(* included) getReferenceLong returns '#<number>'; for every commit        *)
(* without one it returns the first 7 characters of sha.                   *)
(***************************************************************************)
\* the short reference as section 4.1 of the specification defines it
shortReference(commit) ==
  IF commit.hasPullNumber
  THEN "#" \o ToString(commit.pullNumber)
  ELSE SubSeq(commit.sha, 1, 7)

C12_ReferenceOfEveryCommit ==
  named.fn = "getReferenceLong" =>
    named.value = shortReference(commits[named.commit])

(***************************************************************************)
(* C13 (as stated): for every commit whose message contains the literal    *)
(* '(<shortReference>)' one or more times, the bullet rendered for it in   *)
(* the pull-request body contains '(<shortReference>)' exactly once.       *)
(***************************************************************************)
\* the number of occurrences of pat in s
occurrences(s, pat) ==
  Cardinality({ i \in 1..(Len(s) - Len(pat) + 1) : SubSeq(s, i, i + Len(pat) - 1) = pat })

C13_ReferenceExactlyOnce ==
  named.fn = "getPullRequestPayload" =>
    \A k \in Commits :
      LET paren == "(" \o shortReference(commits[k]) \o ")"
          bullet == Lines(named.value.body)[k + 1]
      IN  occurrences(commits[k].message, paren) >= 1 => occurrences(bullet, paren) = 1

(***************************************************************************)
(* C14 (as stated): for commits = [{message: 'Fix bug (#10)', pullNumber:  *)
(* 10}] and baseBranch '7.x' the pull-request body contains the exact      *)
(* substring ' - Fix bug (#10)'.                                           *)
(***************************************************************************)
C14_FixBugBullet ==
  ( /\ named.fn = "getPullRequestPayload"
    /\ branches = << "7.x" >>
    /\ Len(commits) = 1
    /\ commits[1].message = "Fix bug (#10)"
    /\ commits[1].hasPullNumber /\ commits[1].pullNumber = 10 )
  => includes(named.value.body, " - Fix bug (#10)")

(***************************************************************************)
(* C15: in every branch pipeline that is started, whatever happened to the *)
(* earlier branches, the first call is resetBranch and the second, made    *)
(* only after resetBranch returned normally, is createAndCheckoutBranch;   *)
(* every other call of the branch (cherrypick, prompt, dirtiness check,    *)
(* push, createPullRequest, addLabels) is made only after                  *)
(* createAndCheckoutBranch returned normally; when one of the two fails    *)
(* the pipeline fails and nothing else is called for the branch.           *)
(***************************************************************************)
\* the calls issued for branch b, and their outcomes, in order
CallsOfPipeline(b) == SelectSeq(calls, LAMBDA c : c.branch = b)
ReturnsOfPipeline(b) == SelectSeq(returns, LAMBDA r : r.branch = b)

C15_SyncBeforeAnythingElse ==
  \A b \in Branches :
    LET cs == CallsOfPipeline(b)
        rs == ReturnsOfPipeline(b)
    IN  /\ Started(b) => Len(cs) >= 1
        /\ Len(cs) >= 1 => cs[1].op = "resetBranch"
        /\ Len(cs) >= 2 =>
             /\ cs[2].op = "createAndCheckoutBranch"
             /\ rs[1].op = "resetBranch" /\ rs[1].result = "ok"
        /\ Len(cs) >= 3 =>
             /\ rs[2].op = "createAndCheckoutBranch" /\ rs[2].result = "ok"
             /\ \A i \in 3..Len(cs) : cs[i].op \notin {"resetBranch", "createAndCheckoutBranch"}
        /\ \A i \in 1..Min(2, Len(rs)) :
             rs[i].result = "error" =>
               /\ Len(cs) = i
               /\ pipeline[b] = Rejected(rs[i].error)

C15_Witness ==
  \E b \in Branches :
    /\ b > 1
    /\ DeclinedIn(b - 1)
    /\ CallsOf("cherrypick", b, 1) # {}
    /\ CallsOf("createPullRequest", b, 0) # {}

(***************************************************************************)
(* C16: for each target branch createPullRequest is called at most once;   *)
(* it is called, exactly once, if and only if the push of the branch       *)
(* returned normally, and the call directly follows that push; it is not   *)
(* called for a branch whose resetBranch, createAndCheckoutBranch,         *)
(* cherry-pick series or push failed.                                      *)
(***************************************************************************)
C16_PullRequestOncePerPushedBranch ==
  \A b \in Branches :
    LET cs == CallsOfPipeline(b)
        rs == ReturnsOfPipeline(b)
        created == { j \in 1..Len(cs) : cs[j].op = "createPullRequest" }
        pushed == { i \in 1..Len(rs) : rs[i].op = "push" /\ rs[i].result = "ok" }
        failed == { i \in 1..Len(rs) :
                      /\ rs[i].op \in {"resetBranch", "createAndCheckoutBranch", "push"}
                      /\ rs[i].result = "error" }
    IN  /\ Cardinality(created) <= 1
        /\ Cardinality(created) = 1 <=> pushed # {}
        /\ \A j \in created :
             /\ j > 1
             /\ cs[j - 1].op = "push"
             /\ j - 1 \in pushed
        /\ (failed # {} \/ \E k \in Commits : CommitFailed(b, k)) => created = {}

C16_Witness ==
  \E b \in Branches :
    /\ Cardinality(CallsOf("createPullRequest", b, 0)) = 1
    /\ ReturnsOf("push", b, 0, "ok") # {}
    /\ pipeline[b].state = "resolved"
    /\ Terminated

(***************************************************************************)
(* C17: in a branch pipeline addLabels is called if and only if labels is  *)
(* non-empty and createPullRequest returned normally; it is called once,   *)
(* directly after createPullRequest, with the number of the pull request   *)
(* just created and with the labels; when addLabels fails the pipeline     *)
(* fails (it returns no pull request and no 'View pull request' line is    *)
(* logged for it), the pull request stays created and nothing more is      *)
(* called for the branch.                                                  *)
(***************************************************************************)
C17_LabelsAfterPullRequest ==
  \A b \in Branches :
    LET cs == CallsOfPipeline(b)
        rs == ReturnsOfPipeline(b)
        labelled == { j \in 1..Len(cs) : cs[j].op = "addLabels" }
        created == { i \in 1..Len(rs) : rs[i].op = "createPullRequest" /\ rs[i].result = "ok" }
    IN  /\ labelled # {} <=> (Len(labels) > 0 /\ created # {})
        /\ Cardinality(labelled) <= 1
        /\ created # {} <=> pullRequest[b] # Undefined
        /\ \A j \in labelled :
             /\ j - 1 \in created
             /\ cs[j].args.pullNumber = pullRequest[b].number
             /\ cs[j].args.labels = labels
             /\ (Len(rs) >= j /\ rs[j].result = "error") =>
                  /\ pipeline[b] = Rejected(getError(rs[j].error))
                  /\ pipeline[b].value = Undefined
                  /\ pullRequest[b] # Undefined
                  /\ Len(cs) = j
                  /\ \A x \in 1..Len(logged) :
                       logged[x] # "View pull request: " \o pullRequest[b].html_url \o "\n"

C17_Witness ==
  \E b \in Branches :
    /\ \E i \in 1..Len(returns) :
         returns[i].op = "addLabels" /\ returns[i].branch = b /\ returns[i].result = "error"
    /\ pullRequest[b] # Undefined
    /\ pipeline[b].state = "rejected"

(***************************************************************************)
(* C18: within one branch pipeline the branch name passed to               *)
(* createAndCheckoutBranch, the branch name passed to push and the part    *)
(* after '<username>:' of the head of the pull-request payload are the     *)
(* same string, and the base of the payload is the baseBranch passed to    *)
(* createAndCheckoutBranch, which is the target branch of the pipeline.    *)
(***************************************************************************)
C18_SameFeatureBranchEverywhere ==
  \A b \in Branches :
    LET cs == CallsOfPipeline(b)
    IN  \A j \in 2..Len(cs) :
          /\ cs[j].op = "createAndCheckoutBranch" =>
               /\ j = 2
               /\ cs[j].args.baseBranch = branches[b]
               /\ startsWith(cs[j].args.featureBranch, "backport/" \o branches[b] \o "/")
          /\ cs[j].op = "push" =>
               /\ cs[2].op = "createAndCheckoutBranch"
               /\ cs[j].args.featureBranch = cs[2].args.featureBranch
          /\ cs[j].op = "createPullRequest" =>
               /\ cs[2].op = "createAndCheckoutBranch"
               /\ cs[j].args.payload.head = username \o ":" \o cs[2].args.featureBranch
               /\ cs[j].args.payload.base = cs[2].args.baseBranch

C18_Witness ==
  /\ NB >= 2 /\ NC >= 2
  /\ CallsOf("createAndCheckoutBranch", 2, 0) # {}
  /\ CallsOf("push", 2, 0) # {}
  /\ CallsOf("createPullRequest", 2, 0) # {}
  /\ CallsOf("createPullRequest", 1, 0) # {}

(***************************************************************************)
(* C19: a commit whose cherry-pick conflicted and whose conflict loop      *)
(* ended on a dirtiness check that returned false is settled like a clean  *)
(* commit (cherrypickAndConfirm returns normally): the next commit of the  *)
(* list is not skipped, it is cherry-picked before the pipeline settles;   *)
(* when every commit of the list is clean or resolved the branch is pushed *)
(* before the pipeline settles, and the pull request is created when the   *)
(* push returned normally.                                                 *)
(***************************************************************************)
\* the conflict loop of commit k of branch b ended resolved
ConflictResolved(b, k) ==
  LET rs == ReturnsOfCommit(b, k)
  IN  /\ rs[1].op = "cherrypick" /\ rs[1].result = "error"
      /\ rs[Len(rs)].op = "isIndexDirty" /\ rs[Len(rs)].result = "false"

C19_ResolvedIsClean ==
  /\ \A c \in ConflictedCommits :
       LET b == c[1]
           k == c[2]
       IN  ConflictResolved(b, k) =>
             /\ pick[b][k] = Resolved(Undefined)
             /\ CleanOrResolved(b, k)
             /\ k < NC =>
                  /\ pick[b][k + 1].state = "waiting" \/ cpc[b][k + 1] # "idle"
                  /\ Settled(pipeline[b]) => CallsOf("cherrypick", b, k + 1) # {}
  /\ \A b \in Branches :
       (\A k \in Commits : CleanOrResolved(b, k)) =>
         /\ bpc[b] = "cherrypicks" \/ b \in PushedBranches
         /\ Settled(pipeline[b]) => b \in PushedBranches
         /\ ReturnsOf("push", b, 0, "ok") # {} => CallsOf("createPullRequest", b, 0) # {}

C19_Witness ==
  \E b \in Branches :
    /\ NC >= 2
    /\ << b, 1 >> \in ConflictedCommits
    /\ ConflictResolved(b, 1)
    /\ << b, 2 >> \notin ConflictedCommits
    /\ CleanOrResolved(b, 2)
    /\ CallsOf("createPullRequest", b, 0) # {}

(***************************************************************************)
(* Liveness.  LiveSpec is the run without its history: calls and returns   *)
(* hold the last call and the last outcome only, so that the states of a   *)
(* run are finitely many although the conflict loop has no bound.          *)
(* Fairness: a promise continuation that is ready is run by the event      *)
(* loop, and every collaborator call that is in flight eventually returns  *)
(* (weak fairness of Next; at most one step is enabled at a time apart     *)
(* from the choice of the outcome of the call in flight).                  *)
(***************************************************************************)
LiveInit ==
  /\ branches \in BranchLists
  /\ commits \in CommitLists
  /\ labels \in LabelChoices
  /\ step = [b \in 1..Len(branches) |-> Waiting]
  /\ pipeline = [b \in 1..Len(branches) |-> NotCreated]
  /\ bpc = [b \in 1..Len(branches) |-> "idle"]
  /\ pick = [b \in 1..Len(branches) |-> [k \in 1..Len(commits) |-> NotCreated]]
  /\ cpc = [b \in 1..Len(branches) |-> [k \in 1..Len(commits) |-> "idle"]]
  /\ pullRequest = [b \in 1..Len(branches) |-> Undefined]
  /\ calls = <<>>
  /\ returns = <<>>
  /\ logged = <<>>
  /\ reported = <<>>
  /\ named = NotNamed
  /\ recording = FALSE

LiveSpec == LiveInit /\ [][Next]_vars /\ WF_vars(Next)

\* a conflict loop is running
InConflictLoop ==
  \E b \in Branches, k \in Commits : cpc[b][k] \in {"confirmConflictResolved", "isIndexDirty"}

\* the last outcome is the operator answering no or a dirtiness check
\* returning false
LoopEndingAnswer ==
  /\ Len(returns) > 0
  /\ LET r == returns[Len(returns)]
     IN  \/ r.op = "confirmConflictResolved" /\ r.result = "false"
         \/ r.op = "isIndexDirty" /\ r.result = "false"

\* the run is over: every target branch is finished (its pipeline succeeded
\* or failed) or was skipped, and nothing is in flight
Finished ==
  /\ InFlight = {}
  /\ \A b \in Branches :
       /\ Settled(step[b])
       /\ \/ Settled(pipeline[b]) /\ bpc[b] = "done"
          \/ pipeline[b] = NotCreated /\ bpc[b] = "idle" /\ step[b].state = "rejected"

\* the dirtiness check of commit k returns true and the operator is prompted again
Reprompt(b, k) == isIndexDirtyReturns(b, k) /\ cpc'[b][k] = "confirmConflictResolved"

\* the operator confirms and the dirtiness check is made
ConfirmYes(b, k) == confirmConflictResolvedReturns(b, k) /\ cpc'[b][k] = "isIndexDirty"

\* the conflict loop can always go round once more
LoopCanGoOn ==
  \A b \in Branches, k \in Commits :
    /\ cpc[b][k] = "isIndexDirty" => ENABLED Reprompt(b, k)
    /\ cpc[b][k] = "confirmConflictResolved" => ENABLED ConfirmYes(b, k)

(***************************************************************************)
(* C20: when every collaborator call eventually returns (the fairness of   *)
(* LiveSpec) and in every conflict loop the operator eventually answers no *)
(* or a dirtiness check eventually returns false, the run eventually ends  *)
(* with every target branch finished or skipped, and stays so; and the     *)
(* conflict loop has no bound: at every prompt the operator can confirm    *)
(* and at every dirtiness check the tree can still be dirty, which leads   *)
(* to another prompt.                                                      *)
(***************************************************************************)
C20_TerminatesWhenLoopsEnd ==
  /\ []LoopCanGoOn
  /\ [](InConflictLoop => <>LoopEndingAnswer) => <>[]Finished

C20_Witness ==
  /\ InConflictLoop
  /\ Len(calls) = 1 /\ calls[1].op = "confirmConflictResolved"
  /\ Len(returns) = 1 /\ returns[1].op = "isIndexDirty" /\ returns[1].result = "true"
  /\ NC >= 2 /\ calls[1].commit = 2 /\ calls[1].branch = 2

(***************************************************************************)
(* C20, the run without the assumption on the conflict loop: the run       *)
(* eventually ends.  It does not hold: the operator can confirm for ever   *)
(* while the tree stays dirty.                                             *)
(***************************************************************************)
C20_TerminatesUnconditionally == <>[]Finished

====
